---- MODULE Spec2Model ----
(***************************************************************************)
(* The client-side state of the project/issue tracker: the Session Store   *)
(* (AuthContext), the Entity Store (ProjectContext), the kanban board      *)
(* (KanbanBoard), the protected routes and the three forms (modals), with  *)
(* the HTTP requests they have in flight.                                  *)
(*                                                                         *)
(* Every store operation is an async function: the part before its await   *)
(* is one step (the call), and the continuation after the await is a       *)
(* second step, taken when the response arrives (success) or the request   *)
(* fails (failure).  Responses arrive in any order.  A continuation reads  *)
(* the variables its closure captured when the operation was called; the   *)
(* request record keeps those it needs.  Functional state updates          *)
(* (setX(prev => ...)) read the state at the time they run.                *)
(***************************************************************************)
EXTENDS Integers, Sequences, FiniteSets, Bags, TLC

VARIABLES
    token,           \* AuthContext: token (Null when absent)
    user,            \* AuthContext: user (NoUser when null)
    authLoading,     \* AuthContext: loading
    storedToken,     \* localStorage["token"] (Null when absent)
    projects,        \* ProjectContext: projects
    currentProject,  \* ProjectContext: currentProject (NoProject when null)
    issues,          \* ProjectContext: issues
    loading,         \* ProjectContext: loading
    inflight,        \* bag of the HTTP requests sent and not yet answered
    settled,         \* the promise the last step settled, and how
    projectId,       \* KanbanBoard: the route parameter (0 off the board)
    draggedIssue,    \* KanbanBoard: draggedIssue (NoIssue when null)
    column,          \* the column the board rendered last: [status, cards]
    overlap,         \* how many requests the behaviour lets be in flight
    view,            \* what ProtectedRoute returned at its last render
    form             \* the modal that is open, with the state of its fields

vars == <<token, user, authLoading, storedToken, projects, currentProject,
          issues, loading, inflight, settled, projectId, draggedIssue, column,
          overlap, view, form>>

authVars == <<token, user, authLoading, storedToken>>
storeVars == <<projects, currentProject, issues, loading>>
boardVars == <<projectId, draggedIssue, column, overlap, view, form>>
pageVars == <<projectId, draggedIssue, column, overlap, view>>

----------------------------------------------------------------------------
(* Bounds of the model.                                                    *)

MaxProjectId == 2
MaxIssueId == 3
MaxProjects == 2
MaxIssues == 2
MaxInflight == 2
MaxColumnIssues == 3
MaxInputLen == 2

----------------------------------------------------------------------------
(* The data the client holds.                                              *)

Null == "null"

Tokens == {"t1"}

Emails == {"e1", "e2"}

Passwords == {"p1"}

\* LoginRequest / SignupRequest
Credentials == [email : Emails, password : Passwords]

NoCredentials == [email |-> "", password |-> ""]

\* The mock user object that login builds: { id: 1, email, created_at }.
User(email) == [id |-> 1, email |-> email]

NoUser == [id |-> 0, email |-> ""]

\* Text is a sequence of characters, a blank or a letter.
Chars == {" ", "a"}

\* undefined or null in place of a text
Absent == <<"undefined">>

ProjectIds == 1..MaxProjectId

IssueIds == 1..MaxIssueId

ProjectTitles == {<<"a">>}

IssueStatus == {"To Do", "In Progress", "Done"}

Project == [id : ProjectIds, title : ProjectTitles]

NoProject == [id |-> 0, title |-> <<>>]

\* The server keeps every issue in the project it was created in: an update
\* cannot move it (IssueUpdate has no project_id).
IssueProject(id) == (id % MaxProjectId) + 1

Issue == {i \in [id : IssueIds, status : IssueStatus, project_id : ProjectIds] :
            i.project_id = IssueProject(i.id)}

NoIssue == [id |-> 0, status |-> "", project_id |-> 0]

IssueUpdate == [status : IssueStatus]

IssueCreate == [status : IssueStatus]

ProjectCreate == [title : ProjectTitles]

IssuePriority == {"Low", "Medium", "High"}

\* The fields a create or update payload may carry; a field the caller left
\* out is undefined.
PayloadFields == {"title", "description", "status", "priority", "assignee"}

NoPayload ==
    [title |-> Absent, description |-> Absent, status |-> "", priority |-> "",
     assignee |-> Absent]

Payload(object) ==
    [field \in PayloadFields |->
        IF field \in DOMAIN object THEN object[field] ELSE NoPayload[field]]

----------------------------------------------------------------------------
(* Sequences.                                                              *)

Map(s, F(_)) == [i \in DOMAIN s |-> F(s[i])]

SeqsUpTo(S, n) == UNION {[1..k -> S] : k \in 0..n}

Ids(s) == {s[i].id : i \in DOMAIN s}

DistinctIds(s) == \A i, j \in DOMAIN s : s[i].id = s[j].id => i = j

Count(s, id) == Cardinality({i \in DOMAIN s : s[i].id = id})

----------------------------------------------------------------------------
(* What the server may answer.                                             *)

\* GET /projects: the projects of the user, each identifier once.
ProjectsData == {s \in SeqsUpTo(Project, MaxProjects) : DistinctIds(s)}

\* GET /projects/{id}/issues: the issues of that project, each identifier once.
IssuesData(pid) ==
    {s \in SeqsUpTo(Issue, MaxIssues) :
        DistinctIds(s) /\ \A i \in DOMAIN s : s[i].project_id = pid}

\* POST /projects/{id}/issues: an issue of that project.
NewIssues(pid) == {i \in Issue : i.project_id = pid}

\* PUT /issues/{id}: the full representation of that issue.
UpdatedIssues(id) == {i \in Issue : i.id = id}

----------------------------------------------------------------------------
(* Requests in flight and settled promises.                                *)

\* A request: the API call, its identifier argument, the status and the text
\* (title) of its payload, currentProject as the closure of the calling
\* operation holds it, the bearer token it was sent with, the handler that
\* awaits the operation when its continuation touches state, the whole
\* payload object and the credentials of a login or signup.
Request(op, id, status, text, cp) ==
    [op |-> op, id |-> id, status |-> status, text |-> text, cp |-> cp,
     token |-> token, caller |-> "", payload |-> NoPayload,
     credentials |-> NoCredentials]

Send(r) == inflight (+) SetToBag({r})

Answered(r) == inflight (-) SetToBag({r})

Pending(op) == {r \in BagToSet(inflight) : r.op = op}

CanSend == BagCardinality(inflight) < overlap

\* The operation that returned or resumed in the last step, its identifier
\* argument, how its promise was settled ("resolved", or "rejected" when the
\* error is rethrown to the caller), and whether it called console.error.
NoPromise == [op |-> "", id |-> 0, result |-> "", logged |-> FALSE]

Resolved(op, id) ==
    [op |-> op, id |-> id, result |-> "resolved", logged |-> FALSE]

\* catch (error) { console.error(...) } with no rethrow
Caught(op, id) ==
    [op |-> op, id |-> id, result |-> "resolved", logged |-> TRUE]

\* catch (error) { console.error(...); throw error }
Rejected(op, id) ==
    [op |-> op, id |-> id, result |-> "rejected", logged |-> TRUE]

----------------------------------------------------------------------------
(* Text and the state of a form.                                           *)

\* What the user may have typed in a text field.
Inputs == SeqsUpTo(Chars, MaxInputLen)

RECURSIVE TrimStart(_)
TrimStart(text) ==
    IF text # <<>> /\ Head(text) = " " THEN TrimStart(Tail(text)) ELSE text

RECURSIVE TrimEnd(_)
TrimEnd(text) ==
    IF text # <<>> /\ text[Len(text)] = " "
    THEN TrimEnd(SubSeq(text, 1, Len(text) - 1))
    ELSE text

\* String.prototype.trim
Trim(text) == TrimEnd(TrimStart(text))

\* A payload field that keeps the empty string.
TrimOrUndefined_keepsEmpty(text) == Trim(text)

\* text.trim() || undefined
TrimOrUndefined(text) == IF Trim(text) # <<>> THEN Trim(text) ELSE Absent

\* value || ""
OrEmpty(value) == IF value = Absent THEN <<>> ELSE value

\* The issue an EditIssueModal is given: an Issue with the fields the form
\* shows.
EditedIssues ==
    [id : {1}, title : {<<"a">>}, description : {Absent, <<"a">>},
     status : {"To Do"}, priority : {"Medium"}, assignee : {Absent, <<"a">>}]

NoEditedIssue ==
    [id |-> 0, title |-> <<>>, description |-> Absent, status |-> "",
     priority |-> "", assignee |-> Absent]

\* No modal is open: the fields of a modal are set again when it opens.
\* loadingAtOpen is the `loading` of the render in which the modal opened,
\* the one the handleClose captured by its Escape-key listener reads.
ClosedForm ==
    [kind |-> "", title |-> <<>>, description |-> <<>>, status |-> "To Do",
     priority |-> "Medium", assignee |-> <<>>, issue |-> NoEditedIssue,
     loading |-> FALSE, error |-> "", hasChanges |-> FALSE,
     loadingAtOpen |-> FALSE]

\* The rest of a handleSubmit, which runs as soon as the store operation it
\* awaits settles: handleClose() (with the `loading` of the render that
\* submitted, false) on success, setError(...) on failure, and
\* setLoading(false) in both cases.
SubmitAfterAwait(r, ok) ==
    form' = IF r.caller # "" /\ r.caller = form.kind
            THEN IF ok
                 THEN ClosedForm
                 ELSE [form EXCEPT !.loading = FALSE, !.error = "failed"]
            ELSE form

----------------------------------------------------------------------------
(* Session Store (AuthContext).                                            *)

\* A mount effect that ends the loading state without reading the persisted
\* token.
StartupEffect_skipsToken ==
    /\ authLoading
    /\ authLoading' = FALSE
    /\ settled' = NoPromise
    /\ UNCHANGED <<token, user, storedToken, storeVars, inflight, boardVars>>

\* The mount effect of AuthProvider.
StartupEffect ==
    /\ authLoading
    /\ token' = IF storedToken # Null THEN storedToken ELSE token
    /\ authLoading' = FALSE
    /\ settled' = NoPromise
    /\ UNCHANGED <<user, storedToken, storeVars, inflight, boardVars>>

\* authApi.login(credentials), awaited by login itself or by the signup
\* that called login.
LoginRequest(credentials, caller) ==
    [Request("login", 0, "", <<>>, NoProject)
        EXCEPT !.credentials = credentials, !.caller = caller]

\* The promise that the answer to the login request r settles: the one of
\* login, or the one of the signup that awaits it.
Awaiting(r) == IF r.caller = "signup" THEN "signup" ELSE "login"

login(credentials) ==
    /\ ~authLoading
    /\ CanSend
    /\ inflight' = Send(LoginRequest(credentials, "login"))
    /\ settled' = NoPromise
    /\ UNCHANGED <<authVars, storeVars, boardVars>>

\* A login that keeps the token in memory only.
loginOk_notPersisted(r, access_token) ==
    /\ r \in Pending("login")
    /\ inflight' = Answered(r)
    /\ token' = access_token
    /\ user' = User(r.credentials.email)
    /\ settled' = Resolved(Awaiting(r), r.id)
    /\ UNCHANGED <<storedToken, authLoading, storeVars, boardVars>>

loginOk(r, access_token) ==
    /\ r \in Pending("login")
    /\ inflight' = Answered(r)
    /\ token' = access_token
    /\ storedToken' = access_token
    /\ user' = User(r.credentials.email)
    /\ settled' = Resolved(Awaiting(r), r.id)
    /\ UNCHANGED <<authLoading, storeVars, boardVars>>

\* A login that signs the user out when it fails.
loginFail_clearsSession(r) ==
    /\ r \in Pending("login")
    /\ inflight' = Answered(r)
    /\ token' = Null
    /\ user' = NoUser
    /\ storedToken' = Null
    /\ settled' = [Rejected(Awaiting(r), r.id) EXCEPT !.logged = FALSE]
    /\ UNCHANGED <<authLoading, storeVars, boardVars>>

loginFail(r) ==
    /\ r \in Pending("login")
    /\ inflight' = Answered(r)
    /\ settled' = [Rejected(Awaiting(r), r.id) EXCEPT !.logged = FALSE]
    /\ UNCHANGED <<authVars, storeVars, boardVars>>

signup(credentials) ==
    /\ ~authLoading
    /\ CanSend
    /\ inflight' = Send([Request("signup", 0, "", <<>>, NoProject)
                            EXCEPT !.credentials = credentials,
                                   !.caller = "signup"])
    /\ settled' = NoPromise
    /\ UNCHANGED <<authVars, storeVars, boardVars>>

\* authApi.signup resolved: signup goes on to `await login(credentials)`,
\* which sends the login request at once.
signupOk(r) ==
    /\ r \in Pending("signup")
    /\ inflight' = Answered(r) (+) SetToBag({LoginRequest(r.credentials, "signup")})
    /\ settled' = NoPromise
    /\ UNCHANGED <<authVars, storeVars, boardVars>>

\* A signup that goes on to log in although the account was not created.
signupFail_logsIn(r) ==
    /\ r \in Pending("signup")
    /\ inflight' = Answered(r) (+) SetToBag({LoginRequest(r.credentials, "signup")})
    /\ settled' = NoPromise
    /\ UNCHANGED <<authVars, storeVars, boardVars>>

signupFail(r) ==
    /\ r \in Pending("signup")
    /\ inflight' = Answered(r)
    /\ settled' = [Rejected("signup", r.id) EXCEPT !.logged = FALSE]
    /\ UNCHANGED <<authVars, storeVars, boardVars>>

\* A logout that leaves the user record in place.
logout_keepsUser ==
    /\ ~authLoading
    /\ token' = Null
    /\ storedToken' = Null
    /\ settled' = NoPromise
    /\ UNCHANGED <<user, authLoading, storeVars, inflight, boardVars>>

\* A logout that leaves the persisted token in place.
logout_keepsPersisted ==
    /\ ~authLoading
    /\ user' = NoUser
    /\ token' = Null
    /\ settled' = NoPromise
    /\ UNCHANGED <<storedToken, authLoading, storeVars, inflight, boardVars>>

logout ==
    /\ ~authLoading
    /\ user' = NoUser
    /\ token' = Null
    /\ storedToken' = Null
    /\ settled' = NoPromise
    /\ UNCHANGED <<authLoading, storeVars, inflight, boardVars>>

----------------------------------------------------------------------------
(* Entity Store (ProjectContext): projects.                                *)

fetchProjects ==
    /\ ~authLoading
    /\ IF token = Null
       THEN /\ settled' = Resolved("fetchProjects", 0)
            /\ UNCHANGED <<loading, inflight>>
       ELSE /\ CanSend
            /\ loading' = TRUE
            /\ inflight' = Send(Request("getProjects", 0, "", <<>>, NoProject))
            /\ settled' = NoPromise
    /\ UNCHANGED <<authVars, projects, currentProject, issues, boardVars>>

fetchProjectsOk(r, projectsData) ==
    /\ r \in Pending("getProjects")
    /\ inflight' = Answered(r)
    /\ projects' = projectsData
    /\ loading' = FALSE
    /\ settled' = Resolved("fetchProjects", r.id)
    /\ UNCHANGED <<authVars, currentProject, issues, boardVars>>

fetchProjectsFail(r) ==
    /\ r \in Pending("getProjects")
    /\ inflight' = Answered(r)
    /\ loading' = FALSE
    /\ settled' = Caught("fetchProjects", r.id)
    /\ UNCHANGED <<authVars, projects, currentProject, issues, boardVars>>

\* The part of createProject before its await, called by `caller`.
createProjectCall(project, caller) ==
    IF token = Null
    THEN /\ settled' = Resolved("createProject", 0)
         /\ UNCHANGED inflight
    ELSE /\ CanSend
         /\ inflight' = Send([Request("createProject", 0, "", project.title,
                                      NoProject)
                                 EXCEPT !.caller = caller,
                                        !.payload = Payload(project)])
         /\ settled' = NoPromise

createProject(project) ==
    /\ ~authLoading
    /\ createProjectCall(project, "")
    /\ UNCHANGED <<authVars, storeVars, boardVars>>

\* A createProject that puts the new project first.
createProjectOk_prepend(r, newProject) ==
    /\ r \in Pending("createProject")
    /\ newProject.title = r.text
    /\ Len(projects) < MaxProjects
    /\ inflight' = Answered(r)
    /\ projects' = <<newProject>> \o projects
    /\ settled' = Resolved("createProject", r.id)
    /\ UNCHANGED <<authVars, currentProject, issues, loading, pageVars>>
    /\ SubmitAfterAwait(r, TRUE)

createProjectOk(r, newProject) ==
    /\ r \in Pending("createProject")
    /\ newProject.title = r.text
    /\ Len(projects) < MaxProjects
    /\ inflight' = Answered(r)
    /\ projects' = projects \o <<newProject>>
    /\ settled' = Resolved("createProject", r.id)
    /\ UNCHANGED <<authVars, currentProject, issues, loading, pageVars>>
    /\ SubmitAfterAwait(r, TRUE)

\* A createProject whose catch does not rethrow.
createProjectFail_swallow(r) ==
    /\ r \in Pending("createProject")
    /\ inflight' = Answered(r)
    /\ settled' = Caught("createProject", r.id)
    /\ UNCHANGED <<authVars, storeVars, pageVars>>
    /\ SubmitAfterAwait(r, FALSE)

createProjectFail(r) ==
    /\ r \in Pending("createProject")
    /\ inflight' = Answered(r)
    /\ settled' = Rejected("createProject", r.id)
    /\ UNCHANGED <<authVars, storeVars, pageVars>>
    /\ SubmitAfterAwait(r, FALSE)

setCurrentProject(project) ==
    /\ ~authLoading
    /\ currentProject' = project
    /\ settled' = NoPromise
    /\ UNCHANGED <<authVars, projects, issues, loading, inflight, boardVars>>

deleteProject(pid) ==
    /\ ~authLoading
    /\ IF token = Null
       THEN /\ settled' = Resolved("deleteProject", pid)
            /\ UNCHANGED inflight
       ELSE /\ CanSend
            /\ inflight' = Send(Request("deleteProject", pid, "", <<>>,
                                        currentProject))
            /\ settled' = NoPromise
    /\ UNCHANGED <<authVars, storeVars, boardVars>>

deleteProjectOk(r) ==
    /\ r \in Pending("deleteProject")
    /\ inflight' = Answered(r)
    /\ projects' = SelectSeq(projects, LAMBDA project : project.id # r.id)
    /\ currentProject' = IF r.cp # NoProject /\ r.cp.id = r.id
                         THEN NoProject
                         ELSE currentProject
    /\ settled' = Resolved("deleteProject", r.id)
    /\ UNCHANGED <<authVars, issues, loading, boardVars>>

deleteProjectFail(r) ==
    /\ r \in Pending("deleteProject")
    /\ inflight' = Answered(r)
    /\ settled' = Rejected("deleteProject", r.id)
    /\ UNCHANGED <<authVars, storeVars, boardVars>>

----------------------------------------------------------------------------
(* Entity Store (ProjectContext): issues.                                  *)

\* A fetchIssues without the `if (!token) return` guard.
fetchIssues_noGuard(pid) ==
    /\ ~authLoading
    /\ CanSend
    /\ loading' = TRUE
    /\ inflight' = Send(Request("getProjectIssues", pid, "", <<>>, NoProject))
    /\ settled' = NoPromise
    /\ UNCHANGED <<authVars, projects, currentProject, issues, boardVars>>

fetchIssues(pid) ==
    /\ ~authLoading
    /\ IF token = Null
       THEN /\ settled' = Resolved("fetchIssues", pid)
            /\ UNCHANGED <<loading, inflight>>
       ELSE /\ CanSend
            /\ loading' = TRUE
            /\ inflight' = Send(Request("getProjectIssues", pid, "", <<>>,
                                        NoProject))
            /\ settled' = NoPromise
    /\ UNCHANGED <<authVars, projects, currentProject, issues, boardVars>>

\* A fetchIssues that adds the payload to the list it finds.
fetchIssuesOk_merge(r, issuesData) ==
    /\ r \in Pending("getProjectIssues")
    /\ inflight' = Answered(r)
    /\ issues' = issues \o issuesData
    /\ loading' = FALSE
    /\ settled' = Resolved("fetchIssues", r.id)
    /\ UNCHANGED <<authVars, projects, currentProject, boardVars>>

fetchIssuesOk(r, issuesData) ==
    /\ r \in Pending("getProjectIssues")
    /\ inflight' = Answered(r)
    /\ issues' = issuesData
    /\ loading' = FALSE
    /\ settled' = Resolved("fetchIssues", r.id)
    /\ UNCHANGED <<authVars, projects, currentProject, boardVars>>

fetchIssuesFail(r) ==
    /\ r \in Pending("getProjectIssues")
    /\ inflight' = Answered(r)
    /\ loading' = FALSE
    /\ settled' = Caught("fetchIssues", r.id)
    /\ UNCHANGED <<authVars, projects, currentProject, issues, boardVars>>

\* The part of createIssue before its await, called by `caller`.
createIssueCall(pid, issue, caller) ==
    IF token = Null
    THEN /\ settled' = Resolved("createIssue", pid)
         /\ UNCHANGED inflight
    ELSE /\ CanSend
         /\ inflight' = Send([Request("createIssue", pid, issue.status, <<>>,
                                      NoProject)
                                 EXCEPT !.caller = caller,
                                        !.payload = Payload(issue)])
         /\ settled' = NoPromise

createIssue(pid, issue) ==
    /\ ~authLoading
    /\ createIssueCall(pid, issue, "")
    /\ UNCHANGED <<authVars, storeVars, boardVars>>

createIssueOk(r, newIssue) ==
    /\ r \in Pending("createIssue")
    /\ Len(issues) < MaxIssues
    /\ inflight' = Answered(r)
    /\ issues' = issues \o <<newIssue>>
    /\ settled' = Resolved("createIssue", r.id)
    /\ UNCHANGED <<authVars, projects, currentProject, loading, pageVars>>
    /\ SubmitAfterAwait(r, TRUE)

createIssueFail(r) ==
    /\ r \in Pending("createIssue")
    /\ inflight' = Answered(r)
    /\ settled' = Rejected("createIssue", r.id)
    /\ UNCHANGED <<authVars, storeVars, pageVars>>
    /\ SubmitAfterAwait(r, FALSE)

\* The part of updateIssue before its await, called by `caller`.
updateIssueCall(issueId, update, caller) ==
    IF token = Null
    THEN /\ settled' = Resolved("updateIssue", issueId)
         /\ UNCHANGED inflight
    ELSE /\ CanSend
         /\ inflight' = Send([Request("updateIssue", issueId, update.status, <<>>,
                                      NoProject)
                                 EXCEPT !.caller = caller,
                                        !.payload = Payload(update)])
         /\ settled' = NoPromise

\* prev.map((issue) => (issue.id === issueId ? updatedIssue : issue))
Patched(prev, issueId, updatedIssue) ==
    [i \in DOMAIN prev |-> IF prev[i].id = issueId THEN updatedIssue ELSE prev[i]]

updateIssue(issueId, update) ==
    /\ ~authLoading
    /\ updateIssueCall(issueId, update, "")
    /\ UNCHANGED <<authVars, storeVars, boardVars>>

\* The rest of handleDrop, which runs as soon as its updateIssue call settles,
\* whichever way: setDraggedIssue(null).
AfterAwait(r) ==
    /\ draggedIssue' = IF r.caller = "handleDrop" THEN NoIssue ELSE draggedIssue
    /\ UNCHANGED <<projectId, column, overlap, view>>

\* An updateIssue that merges the partial request into the local entry.
updateIssueOk_merge(r, updatedIssue) ==
    /\ r \in Pending("updateIssue")
    /\ inflight' = Answered(r)
    /\ issues' = [i \in DOMAIN issues |->
                      IF issues[i].id = r.id
                      THEN [issues[i] EXCEPT !.status = r.status]
                      ELSE issues[i]]
    /\ settled' = Resolved("updateIssue", r.id)
    /\ AfterAwait(r)
    /\ SubmitAfterAwait(r, TRUE)
    /\ UNCHANGED <<authVars, projects, currentProject, loading>>

\* An updateIssue that takes the entry out of the list and adds the answer at
\* the end.
updateIssueOk_reinserts(r, updatedIssue) ==
    /\ r \in Pending("updateIssue")
    /\ inflight' = Answered(r)
    /\ issues' = SelectSeq(issues, LAMBDA issue : issue.id # r.id)
                     \o <<updatedIssue>>
    /\ settled' = Resolved("updateIssue", r.id)
    /\ AfterAwait(r)
    /\ SubmitAfterAwait(r, TRUE)
    /\ UNCHANGED <<authVars, projects, currentProject, loading>>

updateIssueOk(r, updatedIssue) ==
    /\ r \in Pending("updateIssue")
    /\ inflight' = Answered(r)
    /\ issues' = Patched(issues, r.id, updatedIssue)
    /\ settled' = Resolved("updateIssue", r.id)
    /\ AfterAwait(r)
    /\ SubmitAfterAwait(r, TRUE)
    /\ UNCHANGED <<authVars, projects, currentProject, loading>>

updateIssueFail(r) ==
    /\ r \in Pending("updateIssue")
    /\ inflight' = Answered(r)
    /\ settled' = Rejected("updateIssue", r.id)
    /\ AfterAwait(r)
    /\ SubmitAfterAwait(r, FALSE)
    /\ UNCHANGED <<authVars, storeVars>>

deleteIssue(issueId) ==
    /\ ~authLoading
    /\ IF token = Null
       THEN /\ settled' = Resolved("deleteIssue", issueId)
            /\ UNCHANGED inflight
       ELSE /\ CanSend
            /\ inflight' = Send(Request("deleteIssue", issueId, "", <<>>,
                                        NoProject))
            /\ settled' = NoPromise
    /\ UNCHANGED <<authVars, storeVars, boardVars>>

\* The list without its first entry of that identifier.
RECURSIVE WithoutFirst(_, _)
WithoutFirst(list, id) ==
    IF list = <<>> THEN <<>>
    ELSE IF Head(list).id = id THEN Tail(list)
    ELSE <<Head(list)>> \o WithoutFirst(Tail(list), id)

\* A deleteIssue that removes one entry only.
deleteIssueOk_removesOne(r) ==
    /\ r \in Pending("deleteIssue")
    /\ inflight' = Answered(r)
    /\ issues' = WithoutFirst(issues, r.id)
    /\ settled' = Resolved("deleteIssue", r.id)
    /\ UNCHANGED <<authVars, projects, currentProject, loading, boardVars>>

deleteIssueOk(r) ==
    /\ r \in Pending("deleteIssue")
    /\ inflight' = Answered(r)
    /\ issues' = SelectSeq(issues, LAMBDA issue : issue.id # r.id)
    /\ settled' = Resolved("deleteIssue", r.id)
    /\ UNCHANGED <<authVars, projects, currentProject, loading, boardVars>>

\* A deleteIssue that drops the issue from the list whatever the server said.
deleteIssueFail_removes(r) ==
    /\ r \in Pending("deleteIssue")
    /\ inflight' = Answered(r)
    /\ issues' = SelectSeq(issues, LAMBDA issue : issue.id # r.id)
    /\ settled' = Rejected("deleteIssue", r.id)
    /\ UNCHANGED <<authVars, projects, currentProject, loading, boardVars>>

deleteIssueFail(r) ==
    /\ r \in Pending("deleteIssue")
    /\ inflight' = Answered(r)
    /\ settled' = Rejected("deleteIssue", r.id)
    /\ UNCHANGED <<authVars, storeVars, boardVars>>

----------------------------------------------------------------------------
(* The kanban board (KanbanBoard, with its IssueCards and its modal).      *)

\* A partition whose first column takes every issue that is not done.
getIssuesForStatus_notDone(status) ==
    IF status = "To Do"
    THEN SelectSeq(issues, LAMBDA issue : issue.status # "Done")
    ELSE SelectSeq(issues, LAMBDA issue : issue.status = status)

\* A partition that lists the matching issues last to first.
getIssuesForStatus_reversed(status) ==
    LET cards == SelectSeq(issues, LAMBDA issue : issue.status = status)
    IN  [k \in 1..Len(cards) |-> cards[Len(cards) + 1 - k]]

\* issues.filter((issue) => issue.status === status)
getIssuesForStatus(status) ==
    SelectSeq(issues, LAMBDA issue : issue.status = status)

\* One column of the render: the cards under the heading of `status`.
RenderColumn(status) ==
    /\ column' = [status |-> status, cards |-> getIssuesForStatus(status)]
    /\ UNCHANGED <<authVars, storeVars, inflight, settled, projectId,
                   draggedIssue, overlap, view, form>>

\* The route shows the board of project pid (ProtectedRoute lets it render),
\* and the effect on [projectId, fetchIssues] calls fetchIssues(pid).
OpenBoard(pid) ==
    /\ ~authLoading
    /\ token # Null
    /\ pid # projectId
    /\ CanSend
    /\ projectId' = pid
    /\ loading' = TRUE
    /\ inflight' = Send(Request("getProjectIssues", pid, "", <<>>, NoProject))
    /\ settled' = NoPromise
    /\ UNCHANGED <<authVars, projects, currentProject, issues, draggedIssue,
                   column, overlap, view, form>>

handleDragStart(issue) ==
    /\ projectId # 0
    /\ draggedIssue' = issue
    /\ settled' = NoPromise
    /\ UNCHANGED <<authVars, storeVars, inflight, projectId, column, overlap,
                   view, form>>

\* A drop that moves the card in the local list before the server answers.
handleDrop_optimistic(newStatus) ==
    /\ projectId # 0
    /\ IF draggedIssue # NoIssue /\ draggedIssue.status # newStatus
       THEN /\ updateIssueCall(draggedIssue.id, [status |-> newStatus],
                               "handleDrop")
            /\ draggedIssue' = IF token = Null THEN NoIssue ELSE draggedIssue
            /\ issues' = Patched(issues, draggedIssue.id,
                                 [draggedIssue EXCEPT !.status = newStatus])
       ELSE /\ draggedIssue' = NoIssue
            /\ settled' = NoPromise
            /\ UNCHANGED <<inflight, issues>>
    /\ UNCHANGED <<authVars, projects, currentProject, loading, projectId,
                   column, overlap, view, form>>

handleDrop(newStatus) ==
    /\ projectId # 0
    /\ IF draggedIssue # NoIssue /\ draggedIssue.status # newStatus
       THEN /\ updateIssueCall(draggedIssue.id, [status |-> newStatus],
                               "handleDrop")
            /\ draggedIssue' = IF token = Null THEN NoIssue ELSE draggedIssue
       ELSE /\ draggedIssue' = NoIssue
            /\ settled' = NoPromise
            /\ UNCHANGED inflight
    /\ UNCHANGED <<authVars, storeVars, projectId, column, overlap, view, form>>

\* IssueCard.handleDelete, once window.confirm has returned true; the error
\* of a failed deleteIssue is caught and logged.
handleDelete(issue) ==
    /\ projectId # 0
    /\ deleteIssue(issue.id)

Board ==
    \/ \E pid \in ProjectIds : OpenBoard(pid)
    \/ \E i \in DOMAIN issues : handleDragStart(issues[i])
    \/ \E newStatus \in IssueStatus : handleDrop(newStatus)

BoardResponses ==
    \/ \E r \in Pending("getProjectIssues") :
          \E issuesData \in IssuesData(r.id) : fetchIssuesOk(r, issuesData)
    \/ \E r \in Pending("getProjectIssues") : fetchIssuesFail(r)
    \/ \E r \in Pending("updateIssue") :
          \E updatedIssue \in UpdatedIssues(r.id) : updateIssueOk(r, updatedIssue)
    \/ \E r \in Pending("updateIssue") : updateIssueFail(r)

----------------------------------------------------------------------------
(* The protected routes.                                                   *)

\* A route guard that also asks for a user record.
ProtectedRoute_requiresUser ==
    IF authLoading THEN "loading"
    ELSE IF token = Null \/ user = NoUser THEN "redirect"
    ELSE "content"

\* What ProtectedRoute returns: the placeholder while the session is
\* loading, <Navigate to="/login"> without a token, its children otherwise.
ProtectedRoute ==
    IF authLoading THEN "loading"
    ELSE IF token = Null THEN "redirect"
    ELSE "content"

\* A render of a protected route (/projects or /projects/:projectId).
RenderProtectedRoute ==
    /\ view' = ProtectedRoute
    /\ UNCHANGED <<authVars, storeVars, inflight, settled, projectId,
                   draggedIssue, column, overlap, form>>

----------------------------------------------------------------------------
(* The forms: CreateProjectModal, CreateIssueModal, EditIssueModal.        *)

\* The effect of EditIssueModal on [title, description, status, priority,
\* assignee, issue], which sets hasChanges.
Dirty(f) ==
    \/ f.title # f.issue.title
    \/ f.description # OrEmpty(f.issue.description)
    \/ f.status # f.issue.status
    \/ f.priority # f.issue.priority
    \/ f.assignee # OrEmpty(f.issue.assignee)

\* The form after the effects that follow a change of its fields.
AfterEffects(f) ==
    IF f.kind = "EditIssueModal" THEN [f EXCEPT !.hasChanges = Dirty(f)] ELSE f

\* Whether the handleSubmit of that modal is still awaiting the store: its
\* `loading` state, which the component keeps while it is closed.
Loading(kind) == \E r \in BagToSet(inflight) : r.caller = kind

\* The modal of that kind as it opens.
Opened(kind) ==
    [ClosedForm EXCEPT !.kind = kind, !.loading = Loading(kind),
                       !.loadingAtOpen = Loading(kind)]

\* The frame of a step that only touches the form.
OnlyForm ==
    /\ settled' = NoPromise
    /\ UNCHANGED <<authVars, storeVars, inflight, pageVars>>

\* ProjectList opens its CreateProjectModal: the effect on [isOpen] clears
\* the fields.
OpenCreateProjectModal ==
    /\ ~authLoading /\ token # Null
    /\ form.kind = ""
    /\ form' = Opened("CreateProjectModal")
    /\ OnlyForm

\* KanbanBoard opens its CreateIssueModal.
OpenCreateIssueModal ==
    /\ ~authLoading /\ token # Null
    /\ projectId # 0
    /\ form.kind = ""
    /\ form' = Opened("CreateIssueModal")
    /\ OnlyForm

\* An IssueCard opens its EditIssueModal: the effect on [issue, isOpen]
\* loads the fields from the issue.
OpenEditIssueModal(issue) ==
    /\ ~authLoading /\ token # Null
    /\ projectId # 0
    /\ form.kind = ""
    /\ form' = [Opened("EditIssueModal") EXCEPT
                   !.title = issue.title,
                   !.description = OrEmpty(issue.description),
                   !.status = issue.status,
                   !.priority = issue.priority,
                   !.assignee = OrEmpty(issue.assignee),
                   !.issue = issue]
    /\ OnlyForm

\* The fields are disabled while the form is loading.
setTitle(text) ==
    /\ form.kind # "" /\ ~form.loading
    /\ form' = AfterEffects([form EXCEPT !.title = text])
    /\ OnlyForm

setDescription(text) ==
    /\ form.kind # "" /\ ~form.loading
    /\ form' = AfterEffects([form EXCEPT !.description = text])
    /\ OnlyForm

setStatus(status) ==
    /\ form.kind \in {"CreateIssueModal", "EditIssueModal"} /\ ~form.loading
    /\ form' = AfterEffects([form EXCEPT !.status = status])
    /\ OnlyForm

setPriority(priority) ==
    /\ form.kind \in {"CreateIssueModal", "EditIssueModal"} /\ ~form.loading
    /\ form' = AfterEffects([form EXCEPT !.priority = priority])
    /\ OnlyForm

setAssignee(text) ==
    /\ form.kind \in {"CreateIssueModal", "EditIssueModal"} /\ ~form.loading
    /\ form' = AfterEffects([form EXCEPT !.assignee = text])
    /\ OnlyForm

\* disabled={loading || !title.trim()}, and || !hasChanges in EditIssueModal
SubmitDisabled(f) ==
    \/ f.loading
    \/ Trim(f.title) = <<>>
    \/ f.kind = "EditIssueModal" /\ ~f.hasChanges

\* handleClose of the three modals: nothing while loading.
handleClose ==
    /\ form.kind # ""
    /\ form' = IF form.loading THEN form ELSE ClosedForm
    /\ OnlyForm

\* The Escape key: the keydown listener is registered by an effect on
\* [isOpen] only, so it calls the handleClose of the render in which the
\* modal opened and tests the `loading` of that render.
handleEscape ==
    /\ form.kind # ""
    /\ form' = IF form.loadingAtOpen THEN form ELSE ClosedForm
    /\ OnlyForm

\* The form when its handleSubmit has called the store: loading, unless
\* the store returned at once for want of a token and handleClose ran.
Submitted(f) ==
    IF token = Null THEN ClosedForm ELSE [f EXCEPT !.error = "", !.loading = TRUE]

CreateProjectModal_handleSubmit ==
    /\ form.kind = "CreateProjectModal" /\ ~form.loading
    /\ IF Trim(form.title) = <<>>
       THEN /\ form' = [form EXCEPT !.error = "required"]
            /\ settled' = NoPromise
            /\ UNCHANGED inflight
       ELSE /\ createProjectCall(
                   [title |-> Trim(form.title),
                    description |-> TrimOrUndefined(form.description)],
                   "CreateProjectModal")
            /\ form' = Submitted(form)
    /\ UNCHANGED <<authVars, storeVars, pageVars>>

\* A handleSubmit that tests `!title` where the code tests `!title.trim()`.
CreateIssueModal_handleSubmit_untrimmed ==
    /\ form.kind = "CreateIssueModal" /\ ~form.loading
    /\ IF form.title = <<>>
       THEN /\ form' = [form EXCEPT !.error = "required"]
            /\ settled' = NoPromise
            /\ UNCHANGED inflight
       ELSE /\ createIssueCall(
                   projectId,
                   [title |-> Trim(form.title),
                    description |-> TrimOrUndefined(form.description),
                    status |-> form.status,
                    priority |-> form.priority,
                    assignee |-> TrimOrUndefined(form.assignee)],
                   "CreateIssueModal")
            /\ form' = Submitted(form)
    /\ UNCHANGED <<authVars, storeVars, pageVars>>

CreateIssueModal_handleSubmit ==
    /\ form.kind = "CreateIssueModal" /\ ~form.loading
    /\ IF Trim(form.title) = <<>>
       THEN /\ form' = [form EXCEPT !.error = "required"]
            /\ settled' = NoPromise
            /\ UNCHANGED inflight
       ELSE /\ createIssueCall(
                   projectId,
                   [title |-> Trim(form.title),
                    description |-> TrimOrUndefined(form.description),
                    status |-> form.status,
                    priority |-> form.priority,
                    assignee |-> TrimOrUndefined(form.assignee)],
                   "CreateIssueModal")
            /\ form' = Submitted(form)
    /\ UNCHANGED <<authVars, storeVars, pageVars>>

EditIssueModal_handleSubmit ==
    /\ form.kind = "EditIssueModal" /\ ~form.loading
    /\ IF Trim(form.title) = <<>>
       THEN /\ form' = [form EXCEPT !.error = "required"]
            /\ settled' = NoPromise
            /\ UNCHANGED inflight
       ELSE IF ~form.hasChanges
       THEN /\ form' = ClosedForm
            /\ settled' = NoPromise
            /\ UNCHANGED inflight
       ELSE /\ updateIssueCall(
                   form.issue.id,
                   [title |-> Trim(form.title),
                    description |-> TrimOrUndefined(form.description),
                    status |-> form.status,
                    priority |-> form.priority,
                    assignee |-> TrimOrUndefined(form.assignee)],
                   "EditIssueModal")
            /\ form' = Submitted(form)
    /\ UNCHANGED <<authVars, storeVars, pageVars>>

Forms ==
    \/ OpenCreateProjectModal
    \/ OpenCreateIssueModal
    \/ \E issue \in EditedIssues : OpenEditIssueModal(issue)
    \/ \E text \in Inputs : setTitle(text)
    \/ \E text \in Inputs : setDescription(text)
    \/ \E status \in IssueStatus : setStatus(status)
    \/ \E priority \in IssuePriority : setPriority(priority)
    \/ \E text \in Inputs : setAssignee(text)
    \/ handleClose
    \/ CreateProjectModal_handleSubmit
    \/ CreateIssueModal_handleSubmit
    \/ EditIssueModal_handleSubmit

\* What the store tells a form: the server refuses the creations and
\* answers the updates either way.
FormResponses ==
    \/ \E r \in Pending("createProject") : createProjectFail(r)
    \/ \E r \in Pending("createIssue") : createIssueFail(r)
    \/ \E r \in Pending("updateIssue") :
          \E updatedIssue \in UpdatedIssues(r.id) : updateIssueOk(r, updatedIssue)
    \/ \E r \in Pending("updateIssue") : updateIssueFail(r)

----------------------------------------------------------------------------
(* The state after construction: AuthProvider and ProjectProvider mounted, *)
(* the mount effect of AuthProvider not yet run.                           *)

InitState ==
    /\ token = Null
    /\ user = NoUser
    /\ authLoading = TRUE
    /\ storedToken \in {Null} \cup Tokens
    /\ projects = <<>>
    /\ currentProject = NoProject
    /\ issues = <<>>
    /\ loading = FALSE
    /\ inflight = EmptyBag
    /\ settled = NoPromise
    /\ projectId = 0
    /\ draggedIssue = NoIssue
    /\ column = [status |-> "", cards |-> <<>>]
    /\ view = ""
    /\ form = ClosedForm

Init == InitState /\ overlap = 1

InitOverlapping == InitState /\ overlap = MaxInflight

InitSignedIn == InitOverlapping /\ storedToken # Null

Session ==
    \/ StartupEffect
    \/ \E credentials \in Credentials : login(credentials)
    \/ \E r \in Pending("login"), access_token \in Tokens : loginOk(r, access_token)
    \/ \E r \in Pending("login") : loginFail(r)
    \/ logout

FetchOps ==
    \/ fetchProjects
    \/ \E r \in Pending("getProjects"), projectsData \in ProjectsData :
          fetchProjectsOk(r, projectsData)
    \/ \E r \in Pending("getProjects") : fetchProjectsFail(r)
    \/ \E pid \in ProjectIds : fetchIssues(pid)
    \/ \E r \in Pending("getProjectIssues") :
          \E issuesData \in IssuesData(r.id) : fetchIssuesOk(r, issuesData)
    \/ \E r \in Pending("getProjectIssues") : fetchIssuesFail(r)

Select ==
    \/ \E i \in DOMAIN projects : setCurrentProject(projects[i])
    \/ setCurrentProject(NoProject)

WriteCalls ==
    \/ \E project \in ProjectCreate : createProject(project)
    \/ \E pid \in ProjectIds : deleteProject(pid)
    \/ \E pid \in ProjectIds, issue \in IssueCreate : createIssue(pid, issue)
    \/ \E issueId \in IssueIds, update \in IssueUpdate :
          updateIssue(issueId, update)
    \/ \E issueId \in IssueIds : deleteIssue(issueId)

WriteOks ==
    \/ \E r \in Pending("createProject"), newProject \in Project :
          createProjectOk(r, newProject)
    \/ \E r \in Pending("deleteProject") : deleteProjectOk(r)
    \/ \E r \in Pending("createIssue") :
          \E newIssue \in NewIssues(r.id) : createIssueOk(r, newIssue)
    \/ \E r \in Pending("updateIssue") :
          \E updatedIssue \in UpdatedIssues(r.id) : updateIssueOk(r, updatedIssue)
    \/ \E r \in Pending("deleteIssue") : deleteIssueOk(r)

WriteFails ==
    \/ \E r \in Pending("createProject") : createProjectFail(r)
    \/ \E r \in Pending("deleteProject") : deleteProjectFail(r)
    \/ \E r \in Pending("createIssue") : createIssueFail(r)
    \/ \E r \in Pending("updateIssue") : updateIssueFail(r)
    \/ \E r \in Pending("deleteIssue") : deleteIssueFail(r)

ProjectOps ==
    \/ fetchProjects
    \/ \E r \in Pending("getProjects"), projectsData \in ProjectsData :
          fetchProjectsOk(r, projectsData)
    \/ \E r \in Pending("getProjects") : fetchProjectsFail(r)
    \/ \E project \in ProjectCreate : createProject(project)
    \/ \E r \in Pending("createProject"), newProject \in Project :
          createProjectOk(r, newProject)
    \/ \E r \in Pending("createProject") : createProjectFail(r)
    \/ \E i \in DOMAIN projects : setCurrentProject(projects[i])
    \/ setCurrentProject(NoProject)
    \/ \E pid \in ProjectIds : deleteProject(pid)
    \/ \E r \in Pending("deleteProject") : deleteProjectOk(r)
    \/ \E r \in Pending("deleteProject") : deleteProjectFail(r)

IssueOps ==
    \/ \E pid \in ProjectIds : fetchIssues(pid)
    \/ \E r \in Pending("getProjectIssues") :
          \E issuesData \in IssuesData(r.id) : fetchIssuesOk(r, issuesData)
    \/ \E r \in Pending("getProjectIssues") : fetchIssuesFail(r)
    \/ \E pid \in ProjectIds, issue \in IssueCreate : createIssue(pid, issue)
    \/ \E r \in Pending("createIssue") :
          \E newIssue \in NewIssues(r.id) : createIssueOk(r, newIssue)
    \/ \E r \in Pending("createIssue") : createIssueFail(r)
    \/ \E issueId \in IssueIds, update \in IssueUpdate :
          updateIssue(issueId, update)
    \/ \E r \in Pending("updateIssue") :
          \E updatedIssue \in UpdatedIssues(r.id) : updateIssueOk(r, updatedIssue)
    \/ \E r \in Pending("updateIssue") : updateIssueFail(r)
    \/ \E issueId \in IssueIds : deleteIssue(issueId)
    \/ \E r \in Pending("deleteIssue") : deleteIssueOk(r)
    \/ \E r \in Pending("deleteIssue") : deleteIssueFail(r)

----------------------------------------------------------------------------
(* The whole store: every operation of the two contexts, called in any     *)
(* order with any arguments, one request in flight at a time.              *)

Next == Session \/ FetchOps \/ Select \/ WriteCalls \/ WriteOks \/ WriteFails

Spec == Init /\ [][Next]_vars

----------------------------------------------------------------------------
(* The whole store while the server refuses every create, update and       *)
(* delete: the reads succeed or fail, the writes fail.                     *)

NextFailures ==
    StartupEffect \/ logout \/ FetchOps \/ Select \/ WriteCalls \/ WriteFails

SpecFailures == Init /\ [][NextFailures]_vars

----------------------------------------------------------------------------
(* The project side and the issue side of the store, each with its         *)
(* requests overlapping.                                                   *)

NextProjects == Session \/ ProjectOps

SpecProjects == InitOverlapping /\ [][NextProjects]_vars

NextIssues == StartupEffect \/ IssueOps

SpecIssues == InitSignedIn /\ [][NextIssues]_vars

----------------------------------------------------------------------------
(* The board of a signed-in user, driving the store.                       *)

NextBoard == StartupEffect \/ Board \/ BoardResponses

SpecBoard == InitSignedIn /\ [][NextBoard]_vars

----------------------------------------------------------------------------
(* The reads of the store, overlapping.                                    *)

NextFetches == StartupEffect \/ FetchOps

SpecFetches == InitSignedIn /\ [][NextFetches]_vars

----------------------------------------------------------------------------
(* The reads and the creations of the store, overlapping.                  *)

Creations ==
    \/ \E project \in ProjectCreate : createProject(project)
    \/ \E r \in Pending("createProject"), newProject \in Project :
          createProjectOk(r, newProject)
    \/ \E r \in Pending("createProject") : createProjectFail(r)
    \/ \E pid \in ProjectIds, issue \in IssueCreate : createIssue(pid, issue)
    \/ \E r \in Pending("createIssue") :
          \E newIssue \in NewIssues(r.id) : createIssueOk(r, newIssue)
    \/ \E r \in Pending("createIssue") : createIssueFail(r)

NextLists == NextFetches \/ Creations

SpecLists == InitSignedIn /\ [][NextLists]_vars

----------------------------------------------------------------------------
(* The board with the Delete buttons of its cards.                         *)

Cards ==
    \/ \E i \in DOMAIN issues : handleDelete(issues[i])
    \/ \E r \in Pending("deleteIssue") : deleteIssueOk(r)
    \/ \E r \in Pending("deleteIssue") : deleteIssueFail(r)

NextCards == NextBoard \/ Cards

SpecCards == InitSignedIn /\ [][NextCards]_vars

----------------------------------------------------------------------------
(* The columns of one render, for every issue list the store may hold.     *)

InitColumns ==
    /\ token \in Tokens
    /\ user = NoUser
    /\ authLoading = FALSE
    /\ storedToken = token
    /\ projects = <<>>
    /\ currentProject = NoProject
    /\ issues \in SeqsUpTo(Issue, MaxColumnIssues)
    /\ loading = FALSE
    /\ inflight = EmptyBag
    /\ settled = NoPromise
    /\ projectId \in ProjectIds
    /\ draggedIssue = NoIssue
    /\ column = [status |-> "", cards |-> <<>>]
    /\ view = ""
    /\ form = ClosedForm
    /\ overlap = 1

NextColumns == \E status \in IssueStatus : RenderColumn(status)

SpecColumns == InitColumns /\ [][NextColumns]_vars

----------------------------------------------------------------------------
(* The forms of a signed-in user on a board, over an empty store.          *)

InitForms ==
    /\ token \in Tokens
    /\ user = NoUser
    /\ authLoading = FALSE
    /\ storedToken = token
    /\ projects = <<>>
    /\ currentProject = NoProject
    /\ issues = <<>>
    /\ loading = FALSE
    /\ inflight = EmptyBag
    /\ settled = NoPromise
    /\ projectId \in ProjectIds
    /\ draggedIssue = NoIssue
    /\ column = [status |-> "", cards |-> <<>>]
    /\ view = "content"
    /\ form = ClosedForm
    /\ overlap = 1

NextForms == Forms \/ FormResponses

SpecForms == InitForms /\ [][NextForms]_vars

----------------------------------------------------------------------------
(* The modals with the Escape key; of their fields, the title is typed.    *)

Modals ==
    \/ OpenCreateProjectModal
    \/ OpenCreateIssueModal
    \/ \E issue \in EditedIssues : OpenEditIssueModal(issue)
    \/ \E text \in Inputs : setTitle(text)
    \/ handleClose
    \/ handleEscape
    \/ CreateProjectModal_handleSubmit
    \/ CreateIssueModal_handleSubmit
    \/ EditIssueModal_handleSubmit

NextModals == Modals \/ FormResponses

SpecModals == InitForms /\ [][NextModals]_vars

----------------------------------------------------------------------------
(* The session: startup, login, signup, logout, and the protected routes.  *)

Signup ==
    \/ \E credentials \in Credentials : signup(credentials)
    \/ \E r \in Pending("signup") : signupOk(r)
    \/ \E r \in Pending("signup") : signupFail(r)

NextSession == Session \/ Signup \/ RenderProtectedRoute

SpecSession == InitOverlapping /\ [][NextSession]_vars

----------------------------------------------------------------------------
(* The claims.                                                             *)

\* C1: every successful createProject appends the project the server returned
\* exactly once, at the end of the project list, and every entry that was in
\* the list keeps its value and its place.
C1_CreateProjectAppends ==
    [][\A r \in Pending("createProject"), newProject \in Project :
          createProjectOk(r, newProject) =>
              /\ Len(projects') = Len(projects) + 1
              /\ projects'[Len(projects')] = newProject
              /\ \A i \in DOMAIN projects : projects'[i] = projects[i]]_vars

\* A createProject has just succeeded on a list that already held a project,
\* while another request was still in flight.
C1_Witness ==
    /\ token # Null
    /\ settled = Resolved("createProject", 0)
    /\ Len(projects) = 2
    /\ inflight # EmptyBag

\* C2 as stated: after every successful updateIssue(id, partial) the issue list
\* holds exactly one entry with identifier id, that entry is the server's
\* representation, and the other entries are unchanged and in place.
C2_ExactlyOneEntryAfterUpdate ==
    [][\A r \in Pending("updateIssue"), updatedIssue \in Issue :
          updateIssueOk(r, updatedIssue) =>
              /\ Count(issues', r.id) = 1
              /\ Len(issues') = Len(issues)
              /\ \A i \in DOMAIN issues :
                    IF issues'[i].id = r.id
                    THEN issues'[i] = updatedIssue
                    ELSE issues'[i] = issues[i]]_vars

\* C2: a successful updateIssue(id, partial) replaces every entry that has
\* identifier id when the response arrives by the server's representation
\* (whatever the partial request said), leaves every other entry unchanged and
\* in place, and so leaves exactly one entry with identifier id whenever the
\* list held exactly one before.
C2_UpdateReplacesListedEntries ==
    [][\A r \in Pending("updateIssue"), updatedIssue \in Issue :
          updateIssueOk(r, updatedIssue) =>
              /\ Len(issues') = Len(issues)
              /\ \A i \in DOMAIN issues :
                    IF issues[i].id = r.id
                    THEN issues'[i] = updatedIssue
                    ELSE issues'[i] = issues[i]
              /\ Count(issues, r.id) = 1 => Count(issues', r.id) = 1]_vars

\* An updateIssue has just succeeded on a list of two issues that holds the
\* updated one once, in second place.
C2_Witness ==
    /\ token # Null
    /\ Len(issues) = 2
    /\ settled = Resolved("updateIssue", issues[2].id)
    /\ Count(issues, settled.id) = 1

\* C3: a successful deleteProject(P) removes exactly the entries with
\* identifier P, keeps the others in order, and sets the selection to null if
\* and only if P is the selected project when the delete resolves.
C3_DeleteProjectClearsSelection ==
    [][\A r \in Pending("deleteProject") :
          deleteProjectOk(r) =>
              /\ projects' = SelectSeq(projects, LAMBDA p : p.id # r.id)
              /\ currentProject' = IF currentProject.id = r.id
                                   THEN NoProject
                                   ELSE currentProject]_vars

----------------------------------------------------------------------------
(* Failures and the absent token.                                          *)

\* The step in which a create, update or delete is called.
WriteCall ==
    \/ \E project \in ProjectCreate : createProject(project)
    \/ \E pid \in ProjectIds : deleteProject(pid)
    \/ \E pid \in ProjectIds, issue \in IssueCreate : createIssue(pid, issue)
    \/ \E issueId \in IssueIds, update \in IssueUpdate :
          updateIssue(issueId, update)
    \/ \E issueId \in IssueIds : deleteIssue(issueId)

\* The step in which the request r of a create, update or delete fails.
WriteFail(r) ==
    \/ createProjectFail(r)
    \/ deleteProjectFail(r)
    \/ createIssueFail(r)
    \/ updateIssueFail(r)
    \/ deleteIssueFail(r)

\* The step in which the request r of a fetch fails.
FetchFail(r) == fetchProjectsFail(r) \/ fetchIssuesFail(r)

\* C5: neither the call of a create, update or delete nor the failure of its
\* request changes the project list, the issue list or the selection, and the
\* failure rejects the promise the caller awaits.
C5_FailedWriteChangesNothing ==
    [][/\ WriteCall => UNCHANGED <<projects, issues, currentProject>>
       /\ \A r \in BagToSet(inflight) :
             WriteFail(r) => /\ UNCHANGED <<projects, issues, currentProject>>
                             /\ settled'.result = "rejected"]_vars

\* A deleteIssue of a listed issue has just failed, with projects listed and
\* one of them selected.
C5_Witness ==
    /\ settled = Rejected("deleteIssue", settled.id)
    /\ Count(issues, settled.id) = 1
    /\ projects # <<>>
    /\ currentProject # NoProject

\* C6 as stated: every failing store call, fetchProjects and fetchIssues
\* included, rejects the promise returned to its caller.
C6_EveryFailureRejects ==
    [][\A r \in BagToSet(inflight) :
          WriteFail(r) \/ FetchFail(r) => settled'.result = "rejected"]_vars

\* C6: a failing create, update or delete rejects the promise returned to its
\* caller, and a failing fetchProjects or fetchIssues is caught inside the
\* store: it is logged and the promise resolves.
C6_WriteFailuresRejectFetchFailuresAreCaught ==
    [][\A r \in BagToSet(inflight) :
          /\ WriteFail(r) => settled'.result = "rejected"
          /\ FetchFail(r) => /\ settled'.result = "resolved"
                              /\ settled'.logged]_vars

\* A fetchIssues has just failed over the list of the other project, and its
\* promise resolved.
C6_Witness ==
    /\ settled = Caught("fetchIssues", settled.id)
    /\ issues # <<>>
    /\ issues[1].project_id # settled.id

\* The step in which one of the seven operations of the store is called.
StoreCall ==
    \/ fetchProjects
    \/ \E pid \in ProjectIds : fetchIssues(pid)
    \/ WriteCall

\* C7: an operation of the store called while the token is absent sends no
\* request and leaves projects, issues, selection and loading flag as they
\* were.
C7_NoTokenNoRequest ==
    [][token = Null /\ StoreCall =>
          UNCHANGED <<inflight, projects, issues, currentProject, loading>>]_vars

\* fetchIssues has just returned for want of a token, after a logout that
\* left a fetch in flight over a list that is not empty.
C7_Witness ==
    /\ token = Null
    /\ settled = Resolved("fetchIssues", settled.id)
    /\ loading
    /\ inflight # EmptyBag
    /\ issues # <<>>

----------------------------------------------------------------------------
(* The board.                                                              *)

\* C4: while a board is shown, the issue list holds issues of the project of
\* that board only, whether its fetch is pending, has succeeded or has failed.
C4_IssueListScopedToBoard ==
    projectId # 0 => \A i \in DOMAIN issues : issues[i].project_id = projectId

\* The status that the issue list holds for the one entry with identifier id.
ListedStatus(id) ==
    issues[CHOOSE i \in DOMAIN issues : issues[i].id = id].status

\* The updateIssue(id, {status}) request that a drop sends.
DropRequest(id, status) ==
    [Request("updateIssue", id, status, <<>>, NoProject)
        EXCEPT !.caller = "handleDrop",
               !.payload = [NoPayload EXCEPT !.status = status]]

\* C8: the drop of a dragged issue that is listed once sends exactly one
\* updateIssue(X.id, {status: S}) when S differs from the status the issue
\* list holds for X, and sends nothing when S equals it.
C8_DropUpdatesIffListedStatusDiffers ==
    [][\A S \in IssueStatus :
          /\ draggedIssue # NoIssue
          /\ Count(issues, draggedIssue.id) = 1
          /\ handleDrop(S)
          => inflight' = IF S # ListedStatus(draggedIssue.id)
                         THEN Send(DropRequest(draggedIssue.id, S))
                         ELSE inflight]_vars

\* C9: a drop does not change the issue list, the failure of its updateIssue
\* does not change it either, and the list changes only in the step in which a
\* request is answered with success.
C9_NoOptimisticMove ==
    [][/\ (\E S \in IssueStatus : handleDrop(S)) => issues' = issues
       /\ \A r \in Pending("updateIssue") :
             r.caller = "handleDrop" /\ updateIssueFail(r) => issues' = issues
       /\ issues' # issues => /\ settled'.result = "resolved"
                              /\ ~settled'.logged
                              /\ inflight' # inflight]_vars

\* The updateIssue of a drop has just failed: the issue is listed once, with
\* another status than the one of the column it was dropped on, and nothing
\* is dragged any more.
C9_Witness ==
    /\ projectId # 0
    /\ settled = Rejected("updateIssue", settled.id)
    /\ Count(issues, settled.id) = 1
    /\ draggedIssue = NoIssue
    /\ inflight = EmptyBag

\* The places of the issue list that hold an issue with this status.
Places(status) == {i \in DOMAIN issues : issues[i].status = status}

\* C10: the column rendered for a status holds exactly the issues of the list
\* that have this status, one card per place, in the order of their places.
C10_ColumnIsStablePartition ==
    column.status # "" =>
        /\ Len(column.cards) = Cardinality(Places(column.status))
        /\ \E place \in [DOMAIN column.cards -> Places(column.status)] :
              /\ \A k \in DOMAIN column.cards :
                    column.cards[k] = issues[place[k]]
              /\ \A j, k \in DOMAIN column.cards :
                    j < k => place[j] < place[k]

\* The column of the status of the first and the third of three issues, the
\* second having another status and the two cards being different issues.
C10_Witness ==
    /\ Len(issues) = 3
    /\ issues[1].status = issues[3].status
    /\ issues[2].status # issues[1].status
    /\ issues[1] # issues[3]
    /\ column.status = issues[1].status
    /\ column.cards = <<issues[1], issues[3]>>

----------------------------------------------------------------------------
(* The forms.                                                              *)

\* The step in which one of the three forms is submitted.
handleSubmit ==
    \/ CreateProjectModal_handleSubmit
    \/ CreateIssueModal_handleSubmit
    \/ EditIssueModal_handleSubmit

\* The requests that carry a create or update payload.
PayloadRequests(bag) ==
    {r \in BagToSet(bag) : r.op \in {"createProject", "createIssue", "updateIssue"}}

\* C11: no createProject, createIssue or updateIssue request is ever sent
\* with a title that is empty after trimming, and the submission of a form
\* whose title is empty after trimming sends nothing, leaves the form open
\* and shows the inline error.
C11_BlankTitleIsBlocked ==
    [][/\ \A r \in PayloadRequests(inflight') : Trim(r.payload.title) # <<>>
       /\ Trim(form.title) = <<>> /\ handleSubmit =>
             /\ inflight' = inflight
             /\ form'.kind = form.kind
             /\ form'.error = "required"]_vars

\* The create-issue form shows the inline error for a title of one blank,
\* and nothing is in flight.
C11_Witness ==
    /\ form.kind = "CreateIssueModal"
    /\ form.title = <<" ">>
    /\ form.error = "required"
    /\ inflight = EmptyBag

\* The fields of the edit form equal the issue it was loaded from, texts
\* compared after trimming and enums by value.
SameAsLoaded(f) ==
    /\ Trim(f.title) = Trim(f.issue.title)
    /\ Trim(f.description) = Trim(OrEmpty(f.issue.description))
    /\ f.status = f.issue.status
    /\ f.priority = f.issue.priority
    /\ Trim(f.assignee) = Trim(OrEmpty(f.issue.assignee))

\* C12: when the edit form is submitted with every field equal to the loaded
\* issue (trimmed texts, enum values) the submit control is disabled and no
\* updateIssue is sent; when a field differs and the title is not blank the
\* submit control is enabled.
C12_NoUpdateWithoutChange ==
    [][EditIssueModal_handleSubmit =>
          IF SameAsLoaded(form)
          THEN SubmitDisabled(form) /\ inflight' = inflight
          ELSE Trim(form.title) # <<>> => ~SubmitDisabled(form)]_vars

Blanks(n) == [k \in 1..n |-> " "]

\* t is text without its leading and trailing blanks.
IsTrimOf(t, text) ==
    /\ t = <<>> \/ (t[1] # " " /\ t[Len(t)] # " ")
    /\ \E i, j \in 0..Len(text) : text = Blanks(i) \o t \o Blanks(j)

\* value is the trimmed text, or absent when nothing but blanks was typed.
IsTrimOrAbsent(value, text) ==
    IF \E k \in DOMAIN text : text[k] # " "
    THEN IsTrimOf(value, text)
    ELSE value = Absent

\* C13: the payload a form sends carries the title without its leading and
\* trailing blanks, and description and assignee likewise when something but
\* blanks was typed, absent (never the empty text) otherwise.
C13_PayloadIsTrimmed ==
    [][handleSubmit =>
          \A r \in PayloadRequests(inflight') :
              /\ IsTrimOf(r.payload.title, form.title)
              /\ IsTrimOrAbsent(r.payload.description, form.description)
              /\ form.kind # "CreateProjectModal" =>
                    IsTrimOrAbsent(r.payload.assignee, form.assignee)]_vars

\* The create-issue form has sent a payload for a title with a leading
\* blank, a description of one blank and an assignee with a trailing blank.
C13_Witness ==
    /\ form.kind = "CreateIssueModal"
    /\ form.loading
    /\ form.title = <<" ", "a">>
    /\ form.description = <<" ">>
    /\ form.assignee = <<"a", " ">>
    /\ \E r \in PayloadRequests(inflight) :
          /\ r.payload.title = <<"a">>
          /\ r.payload.description = Absent
          /\ r.payload.assignee = <<"a">>

\* C14: a login that succeeds makes the access token of the response the
\* token in memory, writes the same token to localStorage, and sets the user
\* to a record with the email of the credentials that were submitted.
C14_LoginStoresTokenAndUser ==
    [][\A r \in Pending("login"), access_token \in Tokens :
          loginOk(r, access_token) =>
             /\ token' = access_token
             /\ storedToken' = access_token
             /\ user' # NoUser
             /\ user'.email = r.credentials.email]_vars

C14_Witness ==
    /\ settled = Resolved("login", 0)
    /\ token \in Tokens
    /\ storedToken = token
    /\ user.email = "e2"

\* C15: a login that fails rejects the promise of its caller and leaves the
\* token in memory, the user and the token in localStorage as they were.
C15_FailedLoginChangesNothing ==
    [][\A r \in Pending("login") :
          loginFail(r) =>
             /\ settled'.op = Awaiting(r)
             /\ settled'.result = "rejected"
             /\ token' = token
             /\ user' = user
             /\ storedToken' = storedToken]_vars

C15_Witness ==
    /\ settled.op = "login"
    /\ settled.result = "rejected"
    /\ token \in Tokens
    /\ storedToken = token
    /\ user # NoUser

\* The login requests that a step sends on behalf of a signup.
LoginsSentBySignup ==
    {q \in BagToSet(inflight') :
        /\ q.op = "login"
        /\ q.caller = "signup"
        /\ CopiesIn(q, inflight') > CopiesIn(q, inflight)}

\* C16: signup sends its login request only in the step in which its signup
\* request succeeded, and with the credentials of that request; when the
\* signup request fails, no login request is sent, the session is unchanged
\* and signup rejects; when the login of a signup fails, signup rejects and
\* neither token is set.
C16_SignupThenLogin ==
    [][/\ \A q \in LoginsSentBySignup :
             \E r \in Pending("signup") :
                signupOk(r) /\ q.credentials = r.credentials
       /\ \A r \in Pending("signup") :
             /\ signupOk(r) => Cardinality(LoginsSentBySignup) = 1
             /\ signupFail(r) =>
                   /\ LoginsSentBySignup = {}
                   /\ BagToSet(inflight') \subseteq BagToSet(inflight)
                   /\ UNCHANGED authVars
                   /\ settled'.op = "signup"
                   /\ settled'.result = "rejected"
       /\ \A r \in Pending("login") :
             loginFail(r) /\ r.caller = "signup" =>
                /\ settled'.op = "signup"
                /\ settled'.result = "rejected"
                /\ token' = token
                /\ storedToken' = storedToken]_vars

C16_Witness ==
    /\ token = Null
    /\ storedToken = Null
    /\ \E q \in Pending("login") :
          q.caller = "signup" /\ q.credentials.email = "e2"

\* C17: logout can be called in every state of the mounted provider; it sets
\* the token and the user to null, removes the token from localStorage, and
\* sends no request.
C17_LogoutClearsSession ==
    [][/\ ~authLoading => ENABLED logout
       /\ logout =>
             /\ token' = Null
             /\ user' = NoUser
             /\ storedToken' = Null
             /\ inflight' = inflight]_vars

C17_Witness ==
    /\ view = "content"
    /\ token = Null
    /\ user = NoUser
    /\ storedToken = Null
    /\ inflight # EmptyBag

\* C18 as stated: with a token in localStorage, the token is in memory
\* before anything else renders, so a protected route is never rendered
\* while the token in memory is null; and loading the token sends no
\* request.
C18_TokenInMemoryBeforeRender ==
    [][/\ RenderProtectedRoute /\ storedToken # Null => token # Null
       /\ StartupEffect => inflight' = inflight]_vars

\* C18 as amended: with a token in localStorage, a protected route rendered
\* while the token in memory is still null finds the session loading and
\* shows the placeholder, neither its content nor the redirect; the mount
\* effect then puts the persisted token in memory and sends no request.
C18_NoDecisionBeforeTokenLoaded ==
    [][/\ RenderProtectedRoute /\ storedToken # Null /\ token = Null =>
             authLoading /\ view' = "loading"
       /\ StartupEffect =>
             /\ inflight' = inflight
             /\ storedToken # Null => token' = storedToken
             /\ view \notin {"content", "redirect"}]_vars

C18_Witness ==
    /\ view = "loading"
    /\ ~authLoading
    /\ storedToken \in Tokens
    /\ token = storedToken

\* C19: a protected route renders its content exactly when the session is
\* not loading and the token is not null, and redirects to /login exactly
\* when the session is not loading and the token is null, whatever the user.
C19_RouteDependsOnTokenOnly ==
    [][RenderProtectedRoute =>
          /\ view' = "content" <=> (~authLoading /\ token # Null)
          /\ view' = "redirect" <=> (~authLoading /\ token = Null)]_vars

C19_Witness ==
    /\ view = "content"
    /\ ~authLoading
    /\ token \in Tokens
    /\ user = NoUser

\* The number of entries with that identifier among the first n of a list.
CountBefore(list, n, id) == Cardinality({j \in 1..n : list[j].id = id})

\* C20: the step in which the API call of deleteIssue(id) succeeds leaves no
\* entry with that identifier in the issue list and keeps every other entry,
\* unchanged and in the same order; the step that calls deleteIssue and the
\* step in which the API call fails leave the list as it is.
C20_DeleteRemovesExactlyId ==
    [][/\ \A r \in Pending("deleteIssue") :
             /\ deleteIssueOk(r) =>
                   /\ \A i \in DOMAIN issues' : issues'[i].id # r.id
                   /\ Len(issues') = Len(issues) - CountBefore(issues, Len(issues), r.id)
                   /\ \A i \in DOMAIN issues :
                         issues[i].id # r.id =>
                            issues'[i - CountBefore(issues, i, r.id)] = issues[i]
             /\ deleteIssueFail(r) => issues' = issues
       /\ \A issueId \in IssueIds : deleteIssue(issueId) => issues' = issues]_vars

C20_Witness ==
    /\ token # Null
    /\ Len(issues) = 1
    /\ settled = Resolved("deleteIssue", 1)
    /\ issues[1].id = 2

----------------------------------------------------------------------------
(* Requests that overlap.                                                  *)

\* The update and delete requests in flight for one issue.
WritesInFlight(id) ==
    {r \in BagToSet(inflight) :
        r.op \in {"updateIssue", "deleteIssue"} /\ r.id = id}

\* C21: at most one update or delete request for the same issue is in
\* flight at any time.
C21_OneWriteInFlightPerIssue ==
    \A id \in IssueIds :
       /\ Cardinality(WritesInFlight(id)) <= 1
       /\ \A r \in WritesInFlight(id) : CopiesIn(r, inflight) = 1

\* C26: when the updateIssue call of a drop settles while another issue has
\* been dragged since, that issue is still the dragged issue.
C26_LaterDragSurvives ==
    [][\A r \in Pending("updateIssue") :
          /\ r.caller = "handleDrop"
          /\ draggedIssue # NoIssue
          /\ draggedIssue.id # r.id
          /\ \/ updateIssueFail(r)
             \/ \E updatedIssue \in UpdatedIssues(r.id) :
                   updateIssueOk(r, updatedIssue)
          => draggedIssue' = draggedIssue]_vars

\* C22: the answer to a successful fetchProjects (fetchIssues) makes its
\* payload the project (issue) list, whatever the list held and whatever
\* other fetches are still in flight; a failed fetch and the call of a fetch
\* leave both lists as they are.  The lists after overlapping fetches are
\* therefore the payloads of the successes that were answered last.
C22_LastAnsweredFetchWins ==
    [][/\ \A r \in Pending("getProjects") :
             /\ \A projectsData \in ProjectsData :
                   fetchProjectsOk(r, projectsData) =>
                      projects' = projectsData /\ issues' = issues
             /\ fetchProjectsFail(r) => UNCHANGED <<projects, issues>>
       /\ \A r \in Pending("getProjectIssues") :
             /\ \A issuesData \in IssuesData(r.id) :
                   fetchIssuesOk(r, issuesData) =>
                      issues' = issuesData /\ projects' = projects
             /\ fetchIssuesFail(r) => UNCHANGED <<projects, issues>>
       /\ fetchProjects => UNCHANGED <<projects, issues>>
       /\ \A pid \in ProjectIds :
             fetchIssues(pid) => UNCHANGED <<projects, issues>>]_vars

\* The first of two overlapping fetchIssues has been answered with a list,
\* the second is still in flight.
C22_Witness ==
    /\ settled.op = "fetchIssues"
    /\ settled.result = "resolved"
    /\ ~settled.logged
    /\ Len(issues) = MaxIssues
    /\ \E r \in Pending("getProjectIssues") : r.id # settled.id

\* The fetchProjects and fetchIssues requests in flight.
FetchesInFlight == Pending("getProjects") \cup Pending("getProjectIssues")

\* C29: the loading flag of the store is true in every state in which a
\* fetchProjects or fetchIssues request is in flight, and false in every
\* state in which none is.
C29_LoadingIffFetchInFlight == loading <=> FetchesInFlight # {}

\* What the server may answer to a pending update or delete of an issue
\* (a delete is answered without a body).
WriteAnswers(r) ==
    IF r.op = "deleteIssue" THEN {NoIssue} ELSE UpdatedIssues(r.id)

\* The step in which the pending update or delete r succeeds with `answer`.
IssueWriteOk(r, answer) ==
    IF r.op = "deleteIssue" THEN deleteIssueOk(r) ELSE updateIssueOk(r, answer)

\* The list that the functional update of r's continuation makes of `list`.
Effect(list, r, answer) ==
    IF r.op = "deleteIssue"
    THEN SelectSeq(list, LAMBDA issue : issue.id # r.id)
    ELSE Patched(list, r.id, answer)

\* In `list`, the entries of r's issue are what r leaves of them: none after
\* a delete, as many as in `before` and all equal to the answer after an
\* update.
Applied(list, before, r, answer) ==
    /\ \A i \in DOMAIN list :
          list[i].id = r.id => r.op = "updateIssue" /\ list[i] = answer
    /\ r.op = "updateIssue" => Count(list, r.id) = Count(before, r.id)

\* C23: with an update or delete of one issue and an update or delete of
\* another issue both in flight, the list reached when the first succeeds
\* and then the second is the list reached in the other order, and in it
\* both operations are applied to their own entries.
C23_WritesOnDifferentIssuesCommute ==
    [][\A r1 \in Pending("updateIssue") \cup Pending("deleteIssue") :
          \A r2 \in Pending("updateIssue") \cup Pending("deleteIssue") :
             r1.id # r2.id =>
                \A a1 \in WriteAnswers(r1), a2 \in WriteAnswers(r2) :
                   IssueWriteOk(r1, a1) =>
                      LET thisOrder  == Effect(issues', r2, a2)
                          otherOrder == Effect(Effect(issues, r2, a2), r1, a1)
                      IN  /\ thisOrder = otherOrder
                          /\ Applied(thisOrder, issues, r1, a1)
                          /\ Applied(thisOrder, issues, r2, a2)]_vars

\* An update of one listed issue has succeeded while the delete of another
\* listed issue is still in flight.
C23_Witness ==
    /\ settled.op = "updateIssue"
    /\ settled.result = "resolved"
    /\ Len(issues) = 2
    /\ issues[1].id = settled.id
    /\ \E r \in Pending("deleteIssue") : r.id = issues[2].id /\ r.id # settled.id

\* C24: while the submission of a modal is in flight (its loading flag is
\* true), neither Cancel or a backdrop click (handleClose) nor the Escape
\* key closes the modal or resets its fields.
C24_NoCloseWhileLoading ==
    [][form.kind # "" /\ form.loading /\ (handleClose \/ handleEscape) =>
          form' = form]_vars

\* C25: in every reachable state no two entries of the project list have
\* the same identifier, and no two entries of the issue list.
C25_NoDuplicateIds == DistinctIds(projects) /\ DistinctIds(issues)

----------------------------------------------------------------------------
(* The session and the store.                                              *)

\* C27: once the mount effect has run, the token in memory is the token in
\* localStorage (both null, or the same string), and there is a user only
\* if there is a token.
C27_TokenMatchesStorage ==
    ~authLoading =>
       /\ token = storedToken
       /\ user # NoUser => token # Null

\* A logout has run while a login sent before it is still in flight.
C27_Witness ==
    /\ ~authLoading
    /\ token = Null
    /\ storedToken = Null
    /\ user = NoUser
    /\ \E r \in Pending("login") : r.token # Null

\* C28: after a logout the store holds no project, no issue and no selected
\* project.
C28_LogoutEmptiesStore ==
    [][logout =>
          /\ projects' = <<>>
          /\ issues' = <<>>
          /\ currentProject' = NoProject]_vars

----------------------------------------------------------------------------
(* The three columns of a render.                                          *)

\* The columns in which an issue has a card.
ColumnsOf(issue) ==
    {status \in IssueStatus :
        \E k \in DOMAIN getIssuesForStatus(status) :
           getIssuesForStatus(status)[k] = issue}

\* C30: each issue of the list has its card in exactly one of the three
\* columns, and the numbers of cards of the three columns add up to the
\* length of the list.
C30_ColumnsCoverTheList ==
    /\ \A i \in DOMAIN issues : Cardinality(ColumnsOf(issues[i])) = 1
    /\ Len(getIssuesForStatus("To Do"))
          + Len(getIssuesForStatus("In Progress"))
          + Len(getIssuesForStatus("Done")) = Len(issues)

\* The Done column of a list with one issue of each status has been
\* rendered.
C30_Witness ==
    /\ Len(issues) = 3
    /\ {issues[i].status : i \in DOMAIN issues} = IssueStatus
    /\ column.status = "Done"
    /\ Len(column.cards) = 1
    /\ column.cards[1].status = "Done"

====
